---- MODULE Spec2Model ----
(***************************************************************************)
(* Model of app.py, the sanitary pad vending machine finder.               *)
(*                                                                         *)
(* The script is executed top to bottom once per page run.  One run is the *)
(* sequence Sidebar (lines 80-89), AddForm (lines 91-114), Load (line 119) *)
(* and Rank (lines 120-136); `pc` is the position of the run.  The JSON    *)
(* file vending_machines.json outlives the runs; every other global is     *)
(* rebuilt by each run.                                                    *)
(*                                                                         *)
(* Units: coordinates are integers in microdegrees (the "%.6f" of the      *)
(* number inputs), distances are integers in metres rounded up, so that    *)
(* `vm_distance > radius_km` is `metres > radius_km * 1000`.  Strings are  *)
(* sequences of one-character strings, so that lower() and `in` are        *)
(* computed, not assumed.                                                  *)
(***************************************************************************)
EXTENDS Integers, Sequences, FiniteSets, TLC

VARIABLES
    file,               \* contents of JSON_FILE: [kind, data]
    pc,                 \* "sidebar" | "form" | "load" | "rank" | "done"
    user_lat, user_lon, \* line 81-82
    radius_km,          \* line 85
    search_term,        \* line 86 (already lower-cased)
    filter_open, filter_accessible, filter_stocked,   \* lines 87-89
    name, submitted,    \* lines 93, 99
    name_required,      \* st.sidebar.error("Name required") was shown, line 102
    save_called,        \* save_location was invoked in this run, line 112
    vending_machines,   \* line 119
    filtered,           \* lines 120-136
    exception,          \* uncaught exception that ended the run, or "none"
    seeds               \* how many times the sample data was written (line 58-59)

vars == <<file, pc, user_lat, user_lon, radius_km, search_term, filter_open,
          filter_accessible, filter_stocked, name, submitted, name_required,
          save_called, vending_machines, filtered, exception, seeds>>

-----------------------------------------------------------------------------
(* Bounds and program constants *)

\* The Add form is modelled while the file holds fewer records than this.
MaxRecords == 4

\* value=12.9716 and value=77.5946 of the two number inputs, in microdegrees
DefaultLat == 12971600
DefaultLon == 77594600
\* Radius slider: default 5, minimum 1
DefaultRadius == 5
MinRadius == 1
\* 6371 km
EarthRadius == 6371

-----------------------------------------------------------------------------
(* Strings *)

PadPointCentral ==
    <<"P","a","d","P","o","i","n","t"," ","C","e","n","t","r","a","l">>
QuickPadsMall == <<"Q","u","i","c","k","P","a","d","s"," ","M","a","l","l">>
SafeHygieneHub ==
    <<"S","a","f","e","H","y","g","i","e","n","e"," ","H","u","b">>

UpperCase == <<"A","B","C","D","E","F","G","H","I","J","K","L","M",
               "N","O","P","Q","R","S","T","U","V","W","X","Y","Z">>
LowerCase == <<"a","b","c","d","e","f","g","h","i","j","k","l","m",
               "n","o","p","q","r","s","t","u","v","w","x","y","z">>

\* str.lower(), one character
LowerChar(c) ==
    IF \E i \in 1..Len(UpperCase) : UpperCase[i] = c
    THEN LowerCase[CHOOSE i \in 1..Len(UpperCase) : UpperCase[i] = c]
    ELSE c

\* str.lower()
Lower(s) == [i \in 1..Len(s) |-> LowerChar(s[i])]

\* `sub in s` for strings
IsIn(sub, s) ==
    \E i \in 0..(Len(s) - Len(sub)) : SubSeq(s, i + 1, i + Len(sub)) = sub

-----------------------------------------------------------------------------
(* Dictionaries *)

\* vm.get(key, default)
Get(vm, key, default) == IF key \in DOMAIN vm THEN vm[key] ELSE default

\* vm[key] = value
SetItem(vm, key, value) ==
    [k \in (DOMAIN vm) \cup {key} |-> IF k = key THEN value ELSE vm[k]]

-----------------------------------------------------------------------------
(* haversine, lines 37-44, in fixed point.                                 *)
(* Angles are in microradians, cosines are scaled by 10^6, lengths are in  *)
(* decimetres until the final rounding up to metres.  For the separations  *)
(* of the model (under 4 km) sin x = x and asin x = x hold to a centimetre, *)
(* so 6371 * 2 * asin(sqrt(a)) is sqrt((R dlat)^2 + cos cos (R dlon)^2).    *)

Abs(x) == IF x < 0 THEN -x ELSE x

\* radians(), microdegrees to microradians (pi / 180 = 0.017453)
Radians(u) == ((u \div 1000) * 17453) \div 1000

\* cos(), 1 - x^2/2 + x^4/24, scaled by 10^6
Cos(x) ==
    LET x2 == ((x \div 100) * (x \div 100)) \div 100
        x4 == ((x2 \div 10) * (x2 \div 10)) \div 10000
    IN  1000000 - (x2 \div 2) + (x4 \div 24)

RECURSIVE SqrtSearch(_, _, _)
SqrtSearch(n, lo, hi) ==
    IF lo >= hi THEN lo
    ELSE LET mid == (lo + hi) \div 2
         IN  IF mid * mid >= n THEN SqrtSearch(n, lo, mid)
             ELSE SqrtSearch(n, mid + 1, hi)

\* sqrt(), rounded up
Sqrt(n) == SqrtSearch(n, 0, 46340)

\* R * angle: decimetres per microdegree = 6371 * 10^4 * pi / 180 * 10^-6
Arc(du) == (Abs(du) * ((EarthRadius * 17453) \div 10000)) \div 10000

Haversine(lat1, lon1, lat2, lon2) ==
    LET dlon == lon2 - lon1
        dlat == lat2 - lat1
        y  == Arc(dlat)
        xa == (Arc(dlon) * (Cos(Radians(lat1)) \div 100)) \div 10000
        xb == (Arc(dlon) * (Cos(Radians(lat2)) \div 100)) \div 10000
    IN  (Sqrt(y * y + xa * xb) + 9) \div 10

-----------------------------------------------------------------------------
(* The JSON file *)

sample_data ==
    << [name |-> PadPointCentral, lat |-> 12971598, lon |-> 77594566,
        open |-> TRUE, accessible |-> TRUE, stocked |-> TRUE],
       [name |-> QuickPadsMall, lat |-> 12975000, lon |-> 77592000,
        open |-> TRUE, accessible |-> FALSE, stocked |-> TRUE],
       [name |-> SafeHygieneHub, lat |-> 12969000, lon |-> 77597000,
        open |-> FALSE, accessible |-> TRUE, stocked |-> FALSE] >>

\* json.dump(data, f): the file now holds a JSON list
Dump(data) == [kind |-> "list", data |-> data]

NoFile == [kind |-> "missing", data |-> <<>>]

\* load_locations, mutated: sample data is written whenever nothing can be read
LoadLocationsReseed(f) ==
    IF f.kind \in {"missing", "malformed"}
    THEN [data |-> sample_data, file |-> Dump(sample_data),
          seeded |-> TRUE, raised |-> "none"]
    ELSE [data |-> f.data, file |-> f, seeded |-> FALSE, raised |-> "none"]

\* load_locations, mutated: json.JSONDecodeError is not caught
LoadLocationsNoCatch(f) ==
    IF f.kind = "missing"
    THEN [data |-> sample_data, file |-> Dump(sample_data),
          seeded |-> TRUE, raised |-> "none"]
    ELSE IF f.kind = "malformed"
    THEN [data |-> <<>>, file |-> f, seeded |-> FALSE,
          raised |-> "JSONDecodeError"]
    ELSE [data |-> f.data, file |-> f, seeded |-> FALSE, raised |-> "none"]

\* load_locations: what it returns, the file it leaves, whether it wrote the
\* sample data, and the exception it raised
LoadLocations(f) ==
    IF f.kind = "missing"
    THEN [data |-> sample_data, file |-> Dump(sample_data),
          seeded |-> TRUE, raised |-> "none"]
    ELSE IF f.kind = "malformed"
    THEN [data |-> <<>>, file |-> f, seeded |-> FALSE, raised |-> "none"]
    ELSE \* a list is returned as it is, any other JSON value as [data]:
         \* f.data is the list in both cases
         [data |-> f.data, file |-> f, seeded |-> FALSE, raised |-> "none"]

\* save_location, mutated: the file is rewritten with the new record alone
SaveLocationOverwrite(f, vm) ==
    LET r == LoadLocations(f)
    IN  [file |-> IF r.raised = "none" THEN Dump(<<vm>>) ELSE r.file,
         seeded |-> r.seeded, raised |-> r.raised]

\* save_location
SaveLocation(f, vm) ==
    LET r == LoadLocations(f)
    IN  [file |-> IF r.raised = "none" THEN Dump(Append(r.data, vm)) ELSE r.file,
         seeded |-> r.seeded, raised |-> r.raised]

-----------------------------------------------------------------------------
(* The Add form, lines 92-114 *)

\* `if not name`, mutated: the check is dropped
NameGivenAlways(nm) == TRUE

\* the negation of `not name`
NameGiven(nm) == nm # <<>>

\* new_vm, mutated: a distance is stored with the record
NewVmWithDistance(nm, la, lo, op, ac, stk) ==
    [name |-> nm, lat |-> la, lon |-> lo, open |-> op, accessible |-> ac,
     stocked |-> stk, distance |-> 0]

\* new_vm, lines 104-111
NewVm(nm, la, lo, op, ac, stk) ==
    [name |-> nm, lat |-> la, lon |-> lo, open |-> op, accessible |-> ac,
     stocked |-> stk]

-----------------------------------------------------------------------------
(* Load & Filter, lines 119-136 *)

\* The sidebar inputs the loop reads
Query ==
    [user_lat |-> user_lat, user_lon |-> user_lon, radius_km |-> radius_km,
     search_term |-> search_term, filter_open |-> filter_open,
     filter_accessible |-> filter_accessible,
     filter_stocked |-> filter_stocked]

\* lines 122-123
Annotate(vm, q) ==
    SetItem(vm, "distance", Haversine(q.user_lat, q.user_lon, vm["lat"], vm["lon"]))

\* lines 124-133, mutated: the radius test is >=
KeepStrictlyInside(vm, q) ==
    /\ ~(vm["distance"] >= q.radius_km * 1000)
    /\ ~(q.search_term # <<>> /\ ~IsIn(q.search_term, Lower(vm["name"])))
    /\ ~(q.filter_open /\ ~Get(vm, "open", TRUE))
    /\ ~(q.filter_accessible /\ ~Get(vm, "accessible", TRUE))
    /\ ~(q.filter_stocked /\ ~Get(vm, "stocked", TRUE))

\* lines 124-133, mutated: the Accessible checkbox is not applied
KeepIgnoringAccessible(vm, q) ==
    /\ ~(vm["distance"] > q.radius_km * 1000)
    /\ ~(q.search_term # <<>> /\ ~IsIn(q.search_term, Lower(vm["name"])))
    /\ ~(q.filter_open /\ ~Get(vm, "open", TRUE))
    /\ ~(q.filter_stocked /\ ~Get(vm, "stocked", TRUE))

\* lines 124-133: TRUE when none of the five `continue`s is taken
Keep(vm, q) ==
    /\ ~(vm["distance"] > q.radius_km * 1000)
    /\ ~(q.search_term # <<>> /\ ~IsIn(q.search_term, Lower(vm["name"])))
    /\ ~(q.filter_open /\ ~Get(vm, "open", TRUE))
    /\ ~(q.filter_accessible /\ ~Get(vm, "accessible", TRUE))
    /\ ~(q.filter_stocked /\ ~Get(vm, "stocked", TRUE))

\* one iteration, mutated: the distance is attached to the survivors only
LoopBodyAnnotateKept(vm, q) ==
    LET a == Annotate(vm, q)
    IN  [vm |-> IF Keep(a, q) THEN a ELSE vm, keep |-> Keep(a, q)]

\* one iteration of the loop, lines 121-134: the record as the iteration
\* leaves it, and whether it was appended to `filtered`
LoopBody(vm, q) ==
    LET a == Annotate(vm, q)
    IN  [vm |-> a, keep |-> Keep(a, q)]

\* the records of `vms` after the loop (they are annotated in place)
AfterLoop(vms, q) == [i \in 1..Len(vms) |-> LoopBody(vms[i], q).vm]

RECURSIVE Collect(_, _)
\* `filtered` after the loop
Collect(vms, q) ==
    IF vms = <<>> THEN <<>>
    ELSE LET b == LoopBody(Head(vms), q)
         IN  (IF b.keep THEN <<b.vm>> ELSE <<>>) \o Collect(Tail(vms), q)

\* sort, mutated: an equal key is placed before its equals (not stable)
InsertBeforeEquals(s, x) ==
    LET n == Cardinality({i \in 1..Len(s) : s[i]["distance"] < x["distance"]})
    IN  SubSeq(s, 1, n) \o <<x>> \o SubSeq(s, n + 1, Len(s))

\* sort, mutated: nothing is moved
InsertLast(s, x) == Append(s, x)

\* x placed into the sorted s after every element whose key is <= its key
Insert(s, x) ==
    LET n == Cardinality({i \in 1..Len(s) : s[i]["distance"] <= x["distance"]})
    IN  SubSeq(s, 1, n) \o <<x>> \o SubSeq(s, n + 1, Len(s))

RECURSIVE SortFrom(_, _)
SortFrom(done, rest) ==
    IF rest = <<>> THEN done
    ELSE SortFrom(Insert(done, Head(rest)), Tail(rest))

\* filtered.sort(key=lambda x: x["distance"]), line 136: a stable sort
SortByDistance(s) == SortFrom(<<>>, s)

-----------------------------------------------------------------------------
(* Inputs *)

\* Contents of vending_machines.json when the first run starts
NorthHub == [name |-> <<"H","u","b">>, lat |-> 12980590, lon |-> 77594600]
ClosedPad == [name |-> <<"P","A","D">>, lat |-> 12990000, lon |-> 77594600,
              open |-> FALSE]

InitialFiles ==
    { NoFile,
      [kind |-> "malformed", data |-> <<>>],
      [kind |-> "object", data |-> <<NorthHub>>],
      [kind |-> "list", data |-> <<ClosedPad, NorthHub>>],
      Dump(sample_data) }

Origins == { <<DefaultLat, DefaultLon>>, <<12971598, 77594566>> }
Radii == { MinRadius, DefaultRadius }
TypedSearch == { <<>>, <<"P","a","d">>, <<"h","u","b">> }
FormNames == { <<>>, <<"K","i","o","s","k">> }
\* lat, lon, open, accessible, stocked of the Add form
FormInputs ==
    { <<12980590, 77594600, TRUE, TRUE, TRUE>>,
      <<12990000, 77594600, TRUE, FALSE, TRUE>> }

-----------------------------------------------------------------------------
(* The page run *)

Init ==
    /\ file \in InitialFiles
    /\ pc = "sidebar"
    /\ user_lat = DefaultLat
    /\ user_lon = DefaultLon
    /\ radius_km = DefaultRadius
    /\ search_term = <<>>
    /\ filter_open = TRUE
    /\ filter_accessible = TRUE
    /\ filter_stocked = TRUE
    /\ name = <<>>
    /\ submitted = FALSE
    /\ name_required = FALSE
    /\ save_called = FALSE
    /\ vending_machines = <<>>
    /\ filtered = <<>>
    /\ exception = "none"
    /\ seeds = 0

\* A run starts: lines 80-89 read the sidebar inputs
Sidebar ==
    /\ pc \in {"sidebar", "done"}
    /\ \E o \in Origins, r \in Radii, t \in TypedSearch,
          fo \in BOOLEAN, fa \in BOOLEAN, fs \in BOOLEAN :
          /\ user_lat' = o[1]
          /\ user_lon' = o[2]
          /\ radius_km' = r
          /\ search_term' = Lower(t)
          /\ filter_open' = fo
          /\ filter_accessible' = fa
          /\ filter_stocked' = fs
    /\ name' = <<>>
    /\ submitted' = FALSE
    /\ name_required' = FALSE
    /\ save_called' = FALSE
    /\ vending_machines' = <<>>
    /\ filtered' = <<>>
    /\ exception' = "none"
    /\ pc' = "form"
    /\ UNCHANGED <<file, seeds>>

\* lines 92-114
AddForm ==
    /\ pc = "form"
    /\ \E nm \in FormNames, sub \in BOOLEAN, in \in FormInputs :
          LET saving == sub /\ NameGiven(nm)
              s == SaveLocation(file, NewVm(nm, in[1], in[2], in[3], in[4], in[5]))
          IN  /\ saving => Len(LoadLocations(file).data) < MaxRecords
              /\ name' = nm
              /\ submitted' = sub
              /\ name_required' = (sub /\ ~NameGiven(nm))
              /\ save_called' = saving
              /\ file' = IF saving THEN s.file ELSE file
              /\ seeds' = IF saving /\ s.seeded THEN seeds + 1 ELSE seeds
              /\ exception' = IF saving THEN s.raised ELSE "none"
              /\ pc' = IF saving /\ s.raised # "none" THEN "done" ELSE "load"
    /\ UNCHANGED <<user_lat, user_lon, radius_km, search_term, filter_open,
                   filter_accessible, filter_stocked, vending_machines, filtered>>

\* line 119
Load ==
    /\ pc = "load"
    /\ LET r == LoadLocations(file)
       IN  /\ file' = r.file
           /\ seeds' = IF r.seeded THEN seeds + 1 ELSE seeds
           /\ exception' = r.raised
           /\ vending_machines' = IF r.raised = "none" THEN r.data ELSE <<>>
           /\ pc' = IF r.raised = "none" THEN "rank" ELSE "done"
    /\ UNCHANGED <<user_lat, user_lon, radius_km, search_term, filter_open,
                   filter_accessible, filter_stocked, name, submitted,
                   name_required, save_called, filtered>>

\* lines 120-136
Rank ==
    /\ pc = "rank"
    /\ vending_machines' = AfterLoop(vending_machines, Query)
    /\ filtered' = SortByDistance(Collect(vending_machines, Query))
    /\ pc' = "done"
    /\ UNCHANGED <<file, user_lat, user_lon, radius_km, search_term, filter_open,
                   filter_accessible, filter_stocked, name, submitted,
                   name_required, save_called, exception, seeds>>

Next == Sidebar \/ AddForm \/ Load \/ Rank

Spec == Init /\ [][Next]_vars

-----------------------------------------------------------------------------
(* Properties *)

\* a record without its derived distance
Stored(vm) == [k \in (DOMAIN vm) \ {"distance"} |-> vm[k]]

\* the run has finished normally
RunDone == pc = "done" /\ exception = "none"

\* C1: every record of the result has distance <= radius, and the result is
\* in non-decreasing order of distance.
C1_WithinRadiusAndSorted ==
    /\ \A i \in 1..Len(filtered) : filtered[i]["distance"] <= radius_km * 1000
    /\ \A i, j \in 1..Len(filtered) :
          i < j => filtered[i]["distance"] <= filtered[j]["distance"]

\* C1 witness: a finished run whose input was out of order, with a record
\* beyond the radius dropped and at least two records at different distances kept
C1_Witness ==
    /\ RunDone
    /\ Len(filtered) >= 2
    /\ filtered[1]["distance"] < filtered[Len(filtered)]["distance"]
    /\ \E i \in 1..Len(vending_machines) :
          vending_machines[i]["distance"] > radius_km * 1000
    /\ \E i, j \in 1..Len(vending_machines) :
          /\ i < j
          /\ vending_machines[i]["distance"] > vending_machines[j]["distance"]
          /\ \E a, b \in 1..Len(filtered) :
                filtered[a] = vending_machines[i] /\ filtered[b] = vending_machines[j]

\* the scenario of C2: default origin, radius 5, the three checkboxes ticked,
\* no search term, the three sample records loaded
C2_Scenario ==
    /\ RunDone
    /\ user_lat = DefaultLat /\ user_lon = DefaultLon
    /\ radius_km = DefaultRadius
    /\ search_term = <<>>
    /\ filter_open /\ filter_accessible /\ filter_stocked
    /\ [i \in 1..Len(vending_machines) |-> Stored(vending_machines[i])] = sample_data

ResultNames == { filtered[i]["name"] : i \in 1..Len(filtered) }

\* C2 as stated: in the scenario the result includes "PadPoint Central" and
\* "QuickPads Mall" and excludes "SafeHygiene Hub".
C2_AsStated ==
    C2_Scenario =>
        /\ PadPointCentral \in ResultNames
        /\ QuickPadsMall \in ResultNames
        /\ SafeHygieneHub \notin ResultNames

\* C2 amended: in the scenario the result includes "PadPoint Central" and
\* excludes both "QuickPads Mall" (accessible is false and the Accessible
\* checkbox is ticked) and "SafeHygiene Hub".
C2_OnlyPadPointCentral ==
    C2_Scenario =>
        /\ PadPointCentral \in ResultNames
        /\ QuickPadsMall \notin ResultNames
        /\ SafeHygieneHub \notin ResultNames

C2_Witness == C2_Scenario /\ Len(filtered) = 1

\* C3: after an append the persisted list is the list that was persisted
\* before it (what load_locations returned), in the same order, followed by
\* the appended record.
C3_AppendPreserves ==
    [][ (pc = "form" /\ save_called') =>
            /\ file'.kind = "list"
            /\ Len(file'.data) = Len(LoadLocations(file).data) + 1
            /\ SubSeq(file'.data, 1, Len(file'.data) - 1) = LoadLocations(file).data
            /\ \E in \in FormInputs :
                  file'.data[Len(file'.data)] =
                      NewVm(name', in[1], in[2], in[3], in[4], in[5])
      ]_vars

\* C3 witness: two appends have been made to a file that held two records
C3_Witness ==
    /\ save_called
    /\ Len(file.data) = 4
    /\ SubSeq(file.data, 1, 2) = <<ClosedPad, NorthHub>>

\* C4: a submission with an empty name does not invoke save_location, leaves
\* the file as it was and reports "Name required".
C4_EmptyNameRejected ==
    [][ (pc = "form" /\ submitted' /\ name' = <<>>) =>
            (file' = file /\ ~save_called' /\ name_required')
      ]_vars

C4_Witness ==
    pc = "load" /\ submitted /\ name = <<>> /\ name_required /\ file.kind = "list"

\* C5 as stated: the filter/rank step leaves every input record, the input
\* list and the file unchanged.
C5_AsStated ==
    [][ pc = "rank" => (vending_machines' = vending_machines /\ file' = file) ]_vars

\* C5 amended: the filter/rank step leaves the file, the length and order of
\* the input list and every stored field of every input record unchanged, and
\* sets the field `distance` on every input record, kept or not.
C5_OnlyDistanceAdded ==
    [][ pc = "rank" =>
            /\ file' = file
            /\ Len(vending_machines') = Len(vending_machines)
            /\ \A i \in 1..Len(vending_machines) :
                  /\ DOMAIN vending_machines'[i] =
                        (DOMAIN vending_machines[i]) \cup {"distance"}
                  /\ Stored(vending_machines'[i]) = Stored(vending_machines[i])
                  /\ vending_machines'[i]["distance"] =
                        Haversine(user_lat, user_lon, vending_machines[i]["lat"],
                                  vending_machines[i]["lon"])
      ]_vars

\* C5 witness: a finished run that kept one record and dropped another, the
\* dropped one carrying a distance too
C5_Witness ==
    /\ RunDone
    /\ Len(filtered) >= 1
    /\ \E i \in 1..Len(vending_machines) :
          /\ "distance" \in DOMAIN vending_machines[i]
          /\ \A j \in 1..Len(filtered) : filtered[j] # vending_machines[i]

\* C6: no record of the file carries a `distance` field.
C6_DistanceNotPersisted ==
    \A i \in 1..Len(file.data) : "distance" \notin DOMAIN file.data[i]

\* C6 witness: two runs have appended to the file and the records of the
\* current run carry their distances
C6_Witness ==
    /\ RunDone
    /\ Len(file.data) = 4
    /\ SubSeq(file.data, 1, 2) = <<ClosedPad, NorthHub>>
    /\ Len(vending_machines) = 4
    /\ \A i \in 1..Len(vending_machines) : "distance" \in DOMAIN vending_machines[i]

\* C7: with a malformed file load_locations returns the empty list and no
\* exception ends the run, which finishes with no records.
C7_MalformedIsEmpty ==
    file.kind = "malformed" =>
        /\ exception = "none"
        /\ pc \in {"rank", "done"} => vending_machines = <<>>
        /\ pc = "done" => filtered = <<>>

C7_Witness == file.kind = "malformed" /\ pc = "done"

\* C8: ranking the result of a run again with the same query gives the same
\* list: same records, same order, same distances.
C8_Idempotent ==
    RunDone => SortByDistance(Collect(filtered, Query)) = filtered

\* C8 witness: a result with two different records at the same distance
C8_Witness ==
    /\ RunDone
    /\ \E i, j \in 1..Len(filtered) :
          /\ i < j
          /\ filtered[i]["distance"] = filtered[j]["distance"]
          /\ filtered[i] # filtered[j]

\* the three predicates of C9, for a loaded record
C9_Passes(vm) ==
    /\ Haversine(user_lat, user_lon, vm["lat"], vm["lon"]) <= radius_km * 1000
    /\ search_term = <<>> \/ IsIn(search_term, Lower(vm["name"]))
    /\ ~filter_open \/ "open" \notin DOMAIN vm \/ vm["open"] = TRUE
    /\ ~filter_accessible \/ "accessible" \notin DOMAIN vm \/ vm["accessible"] = TRUE
    /\ ~filter_stocked \/ "stocked" \notin DOMAIN vm \/ vm["stocked"] = TRUE

\* C9: a record is in the result if and only if it passes the radius test
\* (the boundary included), the name test and the three checkbox tests.
C9_ExactlyThePassing ==
    RunDone =>
        /\ \A i \in 1..Len(vending_machines) :
              C9_Passes(vending_machines[i]) <=>
                  \E j \in 1..Len(filtered) : filtered[j] = vending_machines[i]
        /\ Len(filtered) =
              Cardinality({i \in 1..Len(vending_machines) :
                              C9_Passes(vending_machines[i])})

\* C9 witness: a record exactly at the radius, without an `open` field, kept
\* under a ticked Open checkbox and a search term, while another is dropped
C9_Witness ==
    /\ RunDone
    /\ filter_open /\ search_term # <<>>
    /\ Len(filtered) < Len(vending_machines)
    /\ \E j \in 1..Len(filtered) :
          /\ filtered[j]["distance"] = radius_km * 1000
          /\ "open" \notin DOMAIN filtered[j]

\* C10: with no file, the load writes the three sample records and returns
\* them; with a file, the load does not write and returns what the file
\* holds; the sample is written at most once and a file never disappears.
C10_SeedOnlyWhenMissing ==
    [][ /\ (pc = "load" /\ file.kind = "missing") =>
              /\ file' = [kind |-> "list", data |-> sample_data]
              /\ vending_machines' = sample_data
              /\ seeds' = seeds + 1
        /\ (pc = "load" /\ file.kind # "missing") =>
              /\ file' = file
              /\ vending_machines' =
                    IF file.kind = "malformed" THEN <<>> ELSE file.data
        /\ file.kind # "missing" => (file'.kind # "missing" /\ seeds' = seeds)
        /\ seeds' <= 1
      ]_vars

\* C10 witness: the sample was written once, a later run appended to it, and
\* a run after that has loaded the four records
C10_Witness ==
    /\ seeds = 1
    /\ pc = "rank"
    /\ ~save_called
    /\ Len(vending_machines) = 4
    /\ SubSeq(vending_machines, 1, 3) = sample_data

====
